---- MODULE Spec2Model ----
(***************************************************************************)
(* The two agent tools of the repository:                                  *)
(*   analyzeTool  - runs a Python script with child_process.spawnSync      *)
(*   weatherTool  - fetches a forecast from open-meteo with fetch          *)
(* A string is modelled as the sequence of its words (a message) or of the *)
(* chunks written to a stream; the empty string is <<>>.  A value that may *)
(* be null/undefined is a sequence of length 0 or 1.  A returned object is *)
(* a record whose DOMAIN is the set of fields it has.                      *)
(***************************************************************************)
EXTENDS Integers, Sequences, FiniteSets, TLC

VARIABLES pc, tool, input, proc, run, reply, ret, http

vars == <<pc, tool, input, proc, run, reply, ret, http>>

\* ---------------------------------------------------------------- bounds
\* chunks one script's process writes (both streams together)
MaxChunks == 2
\* clock steps the model follows a blocked call past the time limit
MaxOverrun == 1

\* ------------------------------------------------------- program constants
TIMEOUT == 10000
MAX_BUFFER == 10 * 1024 * 1024

\* the orchestrator's concurrent invocations
Calls == {"a", "b"}

None == <<>>
Some(v) == <<v>>

\* how a block of code ends: with a return value or with a thrown value
Return(v) == [kind |-> "return", value |-> v]
Throw(e) == [kind |-> "throw", value |-> e]

\* ------------------------------------------------------------- messages
TimedOutMsg == <<"Execution", "timed", "out", "(limit:", "10", "seconds)">>
ExecFailedPrefix == <<"Execution", "failed:">>
UnknownErrorStderr == <<"Unknown", "error", "occurred">>
ScriptErrorMsg == <<"Python", "script", "exited", "with", "error">>
AnalyzeFallbackMsg == <<"Analysis", "failed", "due", "to", "an", "unknown", "error">>

\* String.prototype.includes on word sequences
Contains(s, sub) ==
  \E i \in 0..(Len(s) - Len(sub)) : SubSeq(s, i + 1, i + Len(sub)) = sub

\* the message of the Error spawnSync puts in result.error
ErrnoMessage(code) == <<"spawnSync", "python", code>>

NoError == [code |-> "", message |-> <<>>]
ErrnoError(code) == [code |-> code, message |-> ErrnoMessage(code)]

\* ------------------------------------------------------- analyzeTool
\* A script is the text handed to the interpreter; what the model keeps of
\* it is its name and the two traits of its behaviour that the tool cannot
\* control: whether it handles SIGTERM and whether it ever exits by itself.
Scripts == [name : {"s1", "s2"}, trapsTerm : BOOLEAN, loops : BOOLEAN]

ChunkLens == {1, MAX_BUFFER}
Streams == {"stdout", "stderr"}

\* values thrown inside the try block: an Error with a message, or a
\* value that is not an Error
Thrown == { [isError |-> TRUE, message |-> <<"spawnSync", "failed">>],
            [isError |-> FALSE, message |-> <<>>] }

NoProc == [state |-> "none", stdout |-> <<>>, stderr |-> <<>>,
           status |-> None, signal |-> None]
NoRun == [stdout |-> <<>>, stderr |-> <<>>, error |-> NoError,
          killed |-> FALSE, elapsed |-> 0, threw |-> FALSE]
NoResult == [f \in {} |-> <<>>]

RECURSIVE Bytes(_)
Bytes(s) == IF s = <<>> THEN 0 ELSE Head(s).len + Bytes(Tail(s))

\* the object spawnSync returns
SpawnResult(p, r) ==
  [error |-> r.error, status |-> p.status, signal |-> p.signal,
   stdout |-> r.stdout, stderr |-> r.stderr]

\* variant of AnalyzeResult: the timeout branch hands the partial output back
AnalyzeResultTimeoutPartial(result) ==
  IF result.error # NoError
  THEN IF result.error.code = "ETIMEDOUT"
       THEN [stdout |-> result.stdout, stderr |-> result.stderr,
             error |-> TimedOutMsg]
       ELSE [error |-> ExecFailedPrefix \o result.error.message]
  ELSE IF result.status # Some(0)
       THEN [stdout |-> result.stdout,
             stderr |-> IF result.stderr # <<>> THEN result.stderr
                        ELSE UnknownErrorStderr,
             exitCode |-> IF result.status = None THEN -1 ELSE result.status[1],
             error |-> ScriptErrorMsg]
       ELSE [stdout |-> result.stdout,
             stderr |-> result.stderr,
             exitCode |-> IF result.status = None THEN 0 ELSE result.status[1]]

\* variant of AnalyzeResult: stderr gets the generic message on success too
AnalyzeResultDefaultsStderr(result) ==
  IF result.error # NoError
  THEN IF result.error.code = "ETIMEDOUT"
       THEN [error |-> TimedOutMsg]
       ELSE [error |-> ExecFailedPrefix \o result.error.message]
  ELSE LET stderr == IF result.stderr # <<>> THEN result.stderr
                     ELSE UnknownErrorStderr
       IN IF result.status # Some(0)
          THEN [stdout |-> result.stdout, stderr |-> stderr,
                exitCode |-> IF result.status = None THEN -1
                             ELSE result.status[1],
                error |-> ScriptErrorMsg]
          ELSE [stdout |-> result.stdout, stderr |-> stderr,
                exitCode |-> IF result.status = None THEN 0
                             ELSE result.status[1]]

\* variant of AnalyzeResult: a null status becomes 0 on the non-zero path
AnalyzeResultNullStatusZero(result) ==
  IF result.error # NoError
  THEN IF result.error.code = "ETIMEDOUT"
       THEN [error |-> TimedOutMsg]
       ELSE [error |-> ExecFailedPrefix \o result.error.message]
  ELSE IF result.status # Some(0)
       THEN [stdout |-> result.stdout,
             stderr |-> IF result.stderr # <<>> THEN result.stderr
                        ELSE UnknownErrorStderr,
             exitCode |-> IF result.status = None THEN 0 ELSE result.status[1],
             error |-> ScriptErrorMsg]
       ELSE [stdout |-> result.stdout,
             stderr |-> result.stderr,
             exitCode |-> IF result.status = None THEN 0 ELSE result.status[1]]

\* variant of AnalyzeResult: the status is looked at before result.error
AnalyzeResultStatusFirst(result) ==
  IF result.status # Some(0)
  THEN [stdout |-> result.stdout,
        stderr |-> IF result.stderr # <<>> THEN result.stderr
                   ELSE UnknownErrorStderr,
        exitCode |-> IF result.status = None THEN -1 ELSE result.status[1],
        error |-> ScriptErrorMsg]
  ELSE IF result.error # NoError
       THEN IF result.error.code = "ETIMEDOUT"
            THEN [error |-> TimedOutMsg]
            ELSE [error |-> ExecFailedPrefix \o result.error.message]
       ELSE [stdout |-> result.stdout,
             stderr |-> result.stderr,
             exitCode |-> IF result.status = None THEN 0 ELSE result.status[1]]

\* part_000 lines 73-94: the result object built from spawnSync's result
AnalyzeResult(result) ==
  IF result.error # NoError
  THEN IF result.error.code = "ETIMEDOUT"
       THEN [error |-> TimedOutMsg]
       ELSE [error |-> ExecFailedPrefix \o result.error.message]
  ELSE IF result.status # Some(0)
       THEN [stdout |-> result.stdout,
             stderr |-> IF result.stderr # <<>> THEN result.stderr
                        ELSE UnknownErrorStderr,
             exitCode |-> IF result.status = None THEN -1 ELSE result.status[1],
             error |-> ScriptErrorMsg]
       ELSE [stdout |-> result.stdout,
             stderr |-> result.stderr,
             exitCode |-> IF result.status = None THEN 0 ELSE result.status[1]]

\* part_000 lines 95-100: the catch block
AnalyzeCatch(thrown) ==
  [error |-> IF thrown.isError THEN thrown.message ELSE AnalyzeFallbackMsg]

\* part_000 lines 60-94: the try block, around the outcome of spawnSync
AnalyzeBody(spawn) ==
  IF spawn.kind = "throw" THEN spawn ELSE Return(AnalyzeResult(spawn.value))

\* variant of AnalyzeExecute: no catch block around the body
AnalyzeExecuteNoCatch(spawn) == AnalyzeBody(spawn)

\* part_000 lines 59-102: execute
AnalyzeExecute(spawn) ==
  LET body == AnalyzeBody(spawn)
  IN IF body.kind = "throw" THEN Return(AnalyzeCatch(body.value)) ELSE body

\* execute ends: the orchestrator gets the returned object, or the exception
Complete(c, outcome) ==
  IF outcome.kind = "return"
  THEN /\ ret' = [ret EXCEPT ![c] = outcome.value]
       /\ pc' = [pc EXCEPT ![c] = "returned"]
  ELSE /\ pc' = [pc EXCEPT ![c] = "raised"]
       /\ UNCHANGED ret

Init ==
  /\ pc = [c \in Calls |-> "idle"]
  /\ reply = [c \in Calls |-> None]
  /\ tool = [c \in Calls |-> "none"]
  /\ input = [c \in Calls |-> <<>>]
  /\ proc = [c \in Calls |-> NoProc]
  /\ run = [c \in Calls |-> NoRun]
  /\ ret = [c \in Calls |-> NoResult]
  /\ http = [c \in Calls |-> <<>>]

\* variant of Finish: the captured output is kept in buffers that all
\* calls share
FinishSharedBuffers(c, p, r) ==
  LET other == CHOOSE d \in Calls : d # c
      shared == [r EXCEPT !.stdout = run[other].stdout \o @,
                          !.stderr = run[other].stderr \o @]
  IN /\ proc' = [proc EXCEPT ![c] = p]
     /\ run' = [run EXCEPT ![c] = r]
     /\ Complete(c, AnalyzeExecute(Return(SpawnResult(p, shared))))

\* spawnSync returns: the rest of execute runs to its return statement
Finish(c, p, r) ==
  /\ proc' = [proc EXCEPT ![c] = p]
  /\ run' = [run EXCEPT ![c] = r]
  /\ Complete(c, AnalyzeExecute(Return(SpawnResult(p, r))))

\* SyncProcessRunner::Kill: the pipes are closed and killSignal (SIGTERM, the
\* default) is sent; spawnSync goes on waiting until the child has exited
Kill(c, p, r) ==
  IF input[c].trapsTerm
  THEN /\ proc' = [proc EXCEPT ![c] = p]
       /\ run' = [run EXCEPT ![c] = [r EXCEPT !.killed = TRUE]]
       /\ UNCHANGED <<ret, pc>>
  ELSE Finish(c, [p EXCEPT !.state = "exited", !.signal = Some("SIGTERM")],
              [r EXCEPT !.killed = TRUE])

\* execute is entered and calls spawnSync, which throws
AnalyzeThrows(c, code, thrown) ==
  /\ pc[c] = "idle"
  /\ tool' = [tool EXCEPT ![c] = "analyze"]
  /\ input' = [input EXCEPT ![c] = code]
  /\ run' = [run EXCEPT ![c] = [NoRun EXCEPT !.threw = TRUE]]
  /\ Complete(c, AnalyzeExecute(Throw(thrown)))
  /\ UNCHANGED <<proc, reply, http>>

\* execute is entered and the interpreter cannot be launched
AnalyzeLaunchFails(c, code) ==
  /\ pc[c] = "idle"
  /\ tool' = [tool EXCEPT ![c] = "analyze"]
  /\ input' = [input EXCEPT ![c] = code]
  /\ Finish(c, NoProc, [NoRun EXCEPT !.error = ErrnoError("ENOENT")])
  /\ UNCHANGED <<reply, http>>

\* execute is entered, the process is started and the call blocks
AnalyzeSpawn(c, code) ==
  /\ pc[c] = "idle"
  /\ tool' = [tool EXCEPT ![c] = "analyze"]
  /\ input' = [input EXCEPT ![c] = code]
  /\ proc' = [proc EXCEPT ![c] = [NoProc EXCEPT !.state = "running"]]
  /\ pc' = [pc EXCEPT ![c] = "blocked"]
  /\ UNCHANGED <<run, reply, ret, http>>

Blocked(c) == pc[c] = "blocked" /\ tool[c] = "analyze"

\* the process writes a chunk; spawnSync buffers it and checks maxBuffer
ProcWrite(c, stream, len) ==
  /\ Blocked(c)
  /\ proc[c].state = "running"
  /\ ~run[c].killed
  /\ Len(proc[c].stdout) + Len(proc[c].stderr) < MaxChunks
  /\ LET chunk == [by |-> input[c].name, len |-> len]
         p == [proc[c] EXCEPT ![stream] = Append(@, chunk)]
         r == [run[c] EXCEPT ![stream] = Append(@, chunk)]
     IN IF Bytes(r.stdout) + Bytes(r.stderr) > MAX_BUFFER
        THEN Kill(c, p, [r EXCEPT !.error = ErrnoError("ENOBUFS")])
        ELSE /\ proc' = [proc EXCEPT ![c] = p]
             /\ run' = [run EXCEPT ![c] = r]
             /\ UNCHANGED <<ret, pc>>
  /\ UNCHANGED <<tool, input, reply, http>>

\* how a process ends by itself: an exit status, or a signal it raised
ExitWays == { [status |-> Some(0), signal |-> None],
              [status |-> Some(1), signal |-> None],
              [status |-> None, signal |-> Some("SIGKILL")] }

ProcExit(c, way) ==
  /\ Blocked(c)
  /\ proc[c].state = "running"
  /\ ~input[c].loops
  /\ Finish(c, [proc[c] EXCEPT !.state = "exited", !.status = way.status,
                               !.signal = way.signal], run[c])
  /\ UNCHANGED <<tool, input, reply, http>>

\* half the time limit passes; at the limit the kill timer fires
Tick(c) ==
  /\ Blocked(c)
  /\ run[c].elapsed < TIMEOUT + MaxOverrun * (TIMEOUT \div 2)
  /\ LET r == [run[c] EXCEPT !.elapsed = @ + (TIMEOUT \div 2)]
     IN IF r.elapsed >= TIMEOUT /\ ~r.killed
        THEN Kill(c, proc[c], [r EXCEPT !.error = ErrnoError("ETIMEDOUT")])
        ELSE /\ run' = [run EXCEPT ![c] = r]
             /\ UNCHANGED <<proc, ret, pc>>
  /\ UNCHANGED <<tool, input, reply, http>>

\* ------------------------------------------------------- weatherTool
\* A JS number is n, or n + 1/2 when half is set
Num(n) == [n |-> n, half |-> FALSE]
Half(n) == [n |-> n, half |-> TRUE]

AtLeast(x, k) == x.n >= k
AtMost(x, k) == x.n < k \/ (x.n = k /\ ~x.half)
IsInteger(x) == ~x.half

\* Number.prototype.toString
NumToString(x) ==
  IF x.half THEN <<ToString(x.n), "+1/2">> ELSE <<ToString(x.n)>>

DEFAULT_DAILY_VARS ==
  <<"temperature_2m_max", "temperature_2m_min", "precipitation_sum",
    "windspeed_10m_max", "weathercode">>

DailyEnum ==
  {"temperature_2m_max", "temperature_2m_min", "precipitation_sum",
   "windspeed_10m_max", "weathercode"}

DefaultForecastDays == Num(3)

\* the arguments the language model hands to the tool
Latitudes == {Num(-91), Num(-90), Num(35), Half(90), Num(200)}
Longitudes == {Num(-181), Num(139), Num(180)}
DayCounts == {None, Some(Num(0)), Some(Num(1)), Some(Half(2)), Some(Num(7)),
              Some(Num(8))}
DailyLists == {None, Some(<<>>), Some(<<"weathercode">>),
               Some(<<"precipitation_sum", "weathercode">>),
               Some(<<"humidity">>)}

Requests ==
  [latitude : Latitudes, longitude : Longitudes, forecast_days : DayCounts,
   daily : DailyLists]

\* variant of ValidLatitude: the .max(90) is missing
ValidLatitudeNoMax(x) == AtLeast(x, -90)

\* weather.ts lines 53-87: the zod schema of the parameters
ValidLatitude(x) == AtLeast(x, -90) /\ AtMost(x, 90)
ValidLongitude(x) == AtLeast(x, -180) /\ AtMost(x, 180)
ValidForecastDays(o) ==
  o = None \/ (IsInteger(o[1]) /\ AtLeast(o[1], 1) /\ AtMost(o[1], 7))
ValidDaily(o) ==
  o = None \/ \A i \in 1..Len(o[1]) : o[1][i] \in DailyEnum

Validate(req) ==
  /\ ValidLatitude(req.latitude)
  /\ ValidLongitude(req.longitude)
  /\ ValidForecastDays(req.forecast_days)
  /\ ValidDaily(req.daily)

\* the parsed arguments: .default(3) fills forecast_days in
Parse(req) ==
  [req EXCEPT !.forecast_days =
     IF req.forecast_days = None THEN Some(DefaultForecastDays) ELSE @]

\* line 88: the destructuring default of forecast_days
ForecastDaysArg(args) ==
  IF args.forecast_days = None THEN Num(3) ELSE args.forecast_days[1]

\* variant of DailyVars: an empty list is not replaced by the default
DailyVarsKeepsEmpty(args) ==
  IF args.daily # None THEN args.daily[1] ELSE DEFAULT_DAILY_VARS

\* lines 91-94
DailyVars(args) ==
  IF args.daily # None /\ Len(args.daily[1]) > 0
  THEN args.daily[1]
  ELSE DEFAULT_DAILY_VARS

\* Array.prototype.join(",")
RECURSIVE Join(_)
Join(list) ==
  IF Len(list) <= 1 THEN list
  ELSE <<Head(list), ",">> \o Join(Tail(list))

\* String.prototype.split(","), the inverse the provider applies
RECURSIVE Split(_)
Split(str) ==
  IF str = <<>> THEN <<"">>
  ELSE IF Len(str) = 1 THEN str
  ELSE <<Head(str)>> \o Split(Tail(Tail(str)))

\* lines 96-104: the query string of the request
Params(args) ==
  [latitude |-> NumToString(args.latitude),
   longitude |-> NumToString(args.longitude),
   forecast_days |-> NumToString(ForecastDaysArg(args)),
   timezone |-> <<"auto">>,
   daily |-> Join(DailyVars(args))]

HttpGet(args) ==
  [method |-> "GET", base |-> "https://api.open-meteo.com/v1/forecast",
   params |-> Params(args)]

\* what the provider may answer
StatusText(status) ==
  CASE status = 200 -> <<"OK">>
    [] status = 299 -> <<>>
    [] status = 404 -> <<"Not", "Found">>
    [] OTHER -> <<"Internal", "Server", "Error">>

Statuses == {200, 299, 404, 500}

\* a body: not JSON, the JSON null, a JSON number, or a JSON object whose
\* properties are null (None) or a value
PropSets == {{}, {"daily_units"}, {"daily_units", "daily"}}
Bodies ==
  {[json |-> "malformed", props |-> NoResult],
   [json |-> "null", props |-> NoResult],
   [json |-> "number", props |-> NoResult]}
  \cup {[json |-> "object", props |-> [k \in ks |-> Some(k)]] : ks \in PropSets}
  \cup {[json |-> "object", props |-> [k \in {"daily_units", "daily"} |-> None]]}

Responses == [status : Statuses, body : Bodies]

Ok(response) == response.status >= 200 /\ response.status <= 299

ApiErrorMsg(response) ==
  <<"Weather", "API", "error:", ToString(response.status)>>
    \o StatusText(response.status)
FetchFailedMsg == <<"fetch", "failed">>
JsonSyntaxMsg == <<"Unexpected", "token">>
NullPropertyMsg == <<"Cannot", "read", "properties", "of", "null">>
WeatherFallbackMsg ==
  <<"Checking", "weather", "failed", "due", "to", "an", "unknown", "error.">>

\* data.key ?? null, for a data that is not null
PropOrNull(data, key) ==
  IF data.json = "object" /\ key \in DOMAIN data.props
  THEN data.props[key]
  ELSE None

\* lines 127-135: the catch block
WeatherCatch(thrown) ==
  [error |-> IF thrown.isError THEN thrown.message ELSE WeatherFallbackMsg]

\* lines 116-126: the object returned on success
WeatherSuccess(args, data) ==
  [source |-> "open-meteo",
   query |-> [latitude |-> args.latitude,
              longitude |-> args.longitude,
              forecast_days |-> ForecastDaysArg(args),
              daily |-> DailyVars(args)],
   units |-> PropOrNull(data, "daily_units"),
   daily |-> PropOrNull(data, "daily")]

\* lines 106-126: the try block from the outcome of fetch on
WeatherBody(args, fetched) ==
  IF fetched.kind = "throw" THEN fetched
  ELSE LET response == fetched.value
       IN IF ~Ok(response)
          THEN Throw([isError |-> TRUE, message |-> ApiErrorMsg(response)])
          ELSE IF response.body.json = "malformed"
          THEN Throw([isError |-> TRUE, message |-> JsonSyntaxMsg])
          ELSE IF response.body.json = "null"
          THEN Throw([isError |-> TRUE, message |-> NullPropertyMsg])
          ELSE Return(WeatherSuccess(args, response.body))

\* lines 88-136: execute, from the outcome of fetch on
WeatherExecute(args, fetched) ==
  LET body == WeatherBody(args, fetched)
  IN IF body.kind = "throw" THEN Return(WeatherCatch(body.value)) ELSE body

\* the tool is invoked: the arguments are checked against the schema, and
\* execute runs up to the await of fetch only when they pass
WeatherInvoke(c, req) ==
  /\ pc[c] = "idle"
  /\ tool' = [tool EXCEPT ![c] = "weather"]
  /\ input' = [input EXCEPT ![c] = req]
  /\ IF Validate(req)
     THEN /\ http' = [http EXCEPT ![c] = Append(@, HttpGet(Parse(req)))]
          /\ pc' = [pc EXCEPT ![c] = "fetching"]
     ELSE /\ pc' = [pc EXCEPT ![c] = "rejected"]
          /\ UNCHANGED http
  /\ UNCHANGED <<proc, run, reply, ret>>

\* fetch rejects (network failure)
WeatherFetchFails(c) ==
  /\ pc[c] = "fetching"
  /\ LET fetched == Throw([isError |-> TRUE, message |-> FetchFailedMsg])
     IN /\ reply' = [reply EXCEPT ![c] = Some(fetched)]
        /\ Complete(c, WeatherExecute(Parse(input[c]), fetched))
  /\ UNCHANGED <<tool, input, proc, run, http>>

\* fetch resolves with a response
WeatherResponse(c, response) ==
  /\ pc[c] = "fetching"
  /\ reply' = [reply EXCEPT ![c] = Some(Return(response))]
  /\ Complete(c, WeatherExecute(Parse(input[c]), Return(response)))
  /\ UNCHANGED <<tool, input, proc, run, http>>

\* ------------------------------------------------------- specifications
AnalyzeStep(c, codes) ==
  \/ \E code \in codes, thrown \in Thrown : AnalyzeThrows(c, code, thrown)
  \/ \E code \in codes : AnalyzeLaunchFails(c, code)
  \/ \E code \in codes : AnalyzeSpawn(c, code)
  \/ \E stream \in Streams, len \in ChunkLens : ProcWrite(c, stream, len)
  \/ \E way \in ExitWays : ProcExit(c, way)
  \/ Tick(c)

WeatherStep(c) ==
  \/ \E req \in Requests : WeatherInvoke(c, req)
  \/ WeatherFetchFails(c)
  \/ \E response \in Responses : WeatherResponse(c, response)

\* one invocation of either tool
Next == AnalyzeStep("a", Scripts) \/ WeatherStep("a")

Spec == Init /\ [][Next]_vars

\* every script that can exit does exit, and the clock does not stop
FairSpec == Spec /\ WF_vars(Next)

\* two invocations of analyzeTool at once, with different scripts
ScriptOf == [c \in Calls |-> IF c = "a" THEN "s1" ELSE "s2"]

ConcNext ==
  \E c \in Calls : AnalyzeStep(c, {s \in Scripts : s.name = ScriptOf[c]})

ConcSpec == Init /\ [][ConcNext]_vars

\* ------------------------------------------------------- properties
Has(r, f) == f \in DOMAIN r
Returned(c) == pc[c] = "returned"
Analyze(c) == tool[c] = "analyze"
Weather(c) == tool[c] = "weather"
ErrorCode(c) == run[c].error.code

\* the call failed: told from what the interpreter and the provider did
AnalyzeFailed(c) ==
  run[c].threw \/ ErrorCode(c) # "" \/ proc[c].status # Some(0)
WeatherFailed(c) ==
  \/ reply[c][1].kind = "throw"
  \/ reply[c][1].value.status \notin 200..299
  \/ reply[c][1].value.body.json \in {"malformed", "null"}

\* C1: in both tools a call never ends with an exception raised to the
\* orchestrator, and a call that failed (launch failure, timeout, non-zero
\* exit, buffer ceiling, non-2xx status, network failure, malformed JSON,
\* internal exception) returns an object whose error field is populated.
C1_FailuresReturnError ==
  \A c \in Calls :
    /\ pc[c] # "raised"
    /\ (Returned(c) /\ Analyze(c) /\ AnalyzeFailed(c))
         => (Has(ret[c], "error") /\ ret[c].error # <<>>)
    /\ (Returned(c) /\ Weather(c) /\ WeatherFailed(c))
         => (Has(ret[c], "error") /\ ret[c].error # <<>>)

C1_Witness ==
  /\ Returned("a") /\ Weather("a") /\ reply["a"][1].kind = "return"
  /\ reply["a"][1].value.status = 200
  /\ reply["a"][1].value.body.json = "null"
  /\ Has(ret["a"], "error")

\* C2 as stated: when the process could not be started or timed out the
\* result has no stdout, stderr or exitCode and has an error; in every other
\* case (buffer ceiling, signal, internal failure included) it has exitCode.
C2_Original ==
  \A c \in Calls :
    (Returned(c) /\ Analyze(c)) =>
      IF ~run[c].threw /\ ErrorCode(c) \in {"ENOENT", "ETIMEDOUT"}
      THEN DOMAIN ret[c] = {"error"} /\ ret[c].error # <<>>
      ELSE Has(ret[c], "exitCode")

\* C2 amended: when spawnSync reports an error (not started, timed out or
\* buffer ceiling exceeded) or an internal exception is caught, the result
\* has no stdout, stderr or exitCode and has an error; in every other case,
\* termination by a signal included, it has exitCode.
C2_ResultShape ==
  \A c \in Calls :
    (Returned(c) /\ Analyze(c)) =>
      IF run[c].threw \/ ErrorCode(c) \in {"ENOENT", "ETIMEDOUT", "ENOBUFS"}
      THEN DOMAIN ret[c] = {"error"} /\ ret[c].error # <<>>
      ELSE Has(ret[c], "exitCode")

C2_Witness ==
  /\ Returned("a") /\ Analyze("a") /\ ErrorCode("a") = "ENOBUFS"
  /\ DOMAIN ret["a"] = {"error"}

\* C3: a script whose process is started, stays within the limits and exits
\* with status 0 gets exitCode 0, the stdout and stderr the process wrote
\* (an empty stderr stays empty) and no error field.
C3_SuccessShape ==
  \A c \in Calls :
    (Returned(c) /\ Analyze(c) /\ ~run[c].threw /\ ErrorCode(c) = ""
       /\ proc[c].state = "exited" /\ proc[c].status = Some(0))
    => ret[c] = [stdout |-> proc[c].stdout, stderr |-> proc[c].stderr,
                 exitCode |-> 0]

C3_Witness ==
  /\ Returned("a") /\ Analyze("a") /\ ErrorCode("a") = ""
  /\ proc["a"].status = Some(0)
  /\ proc["a"].stdout # <<>> /\ proc["a"].stderr = <<>>
  /\ ret["a"].stderr = <<>>

\* a process that ended without status 0 and without an error of spawnSync
EndedBadly(c) ==
  /\ Returned(c) /\ Analyze(c) /\ ~run[c].threw /\ ErrorCode(c) = ""
  /\ proc[c].state = "exited" /\ proc[c].status # Some(0)

NonZeroShape(c, message) ==
  /\ DOMAIN ret[c] = {"stdout", "stderr", "exitCode", "error"}
  /\ ret[c].exitCode # 0
  /\ ret[c].error = message
  /\ ret[c].stdout = proc[c].stdout
  /\ ret[c].stderr # <<>>
  /\ proc[c].stderr # <<>> => ret[c].stderr = proc[c].stderr

\* C4 as stated: the error of the non-zero-exit result is
\* "script exited with error".
C4_Original ==
  \A c \in Calls :
    EndedBadly(c) => NonZeroShape(c, <<"script", "exited", "with", "error">>)

\* C4 amended: a process that ends without status 0 and without an error of
\* spawnSync (runtime error, non-zero exit, killed by a signal) gets
\* exitCode # 0, error "Python script exited with error", the stdout it
\* wrote and a non-empty stderr (its own, or a generic message).
C4_NonZeroExitShape ==
  \A c \in Calls :
    EndedBadly(c)
      => NonZeroShape(c, <<"Python", "script", "exited", "with", "error">>)

C4_Witness ==
  /\ EndedBadly("a") /\ proc["a"].status = None /\ proc["a"].stderr = <<>>
  /\ ret["a"].exitCode = -1

\* C5 as stated: a process still running when the 10 seconds elapse is
\* terminated, the call is not blocked past the limit, and it returns only
\* an error containing "timed out".
C5_TimeoutBounded ==
  \A c \in Calls :
    Analyze(c) =>
      /\ run[c].elapsed > TIMEOUT => pc[c] # "blocked"
      /\ (Returned(c) /\ ErrorCode(c) = "ETIMEDOUT")
           => /\ DOMAIN ret[c] = {"error"}
              /\ Contains(ret[c].error, <<"timed", "out">>)
              /\ proc[c].state = "exited"

\* C6 as stated: once a process has written more than the buffer ceiling,
\* the call ends, and with a result that has an error and is neither the
\* success nor the non-zero-exit shape.
C6_OverflowEnds ==
  \A c \in Calls :
    (Analyze(c) /\ ErrorCode(c) = "ENOBUFS")
      ~> (Returned(c) /\ Has(ret[c], "error") /\ ~Has(ret[c], "exitCode")
            /\ ~Has(ret[c], "stdout"))

\* the interpreter could not be launched
LaunchFailed(c) ==
  /\ Returned(c) /\ Analyze(c) /\ ~run[c].threw
  /\ proc[c].state = "none" /\ ErrorCode(c) = "ENOENT"

\* C7 as stated: on a launch failure the error is the underlying message.
C7_Original ==
  \A c \in Calls :
    LaunchFailed(c) => ret[c] = [error |-> <<"spawnSync", "python", "ENOENT">>]

\* C7 amended: on a launch failure the result has no stdout, stderr or
\* exitCode, and its error is "Execution failed: " followed by the
\* underlying failure message.
C7_LaunchFailureShape ==
  \A c \in Calls :
    LaunchFailed(c)
      => ret[c] = [error |-> <<"Execution", "failed:">> \o run[c].error.message]

C7_Witness ==
  /\ LaunchFailed("a")
  /\ ret["a"].error = <<"Execution", "failed:", "spawnSync", "python", "ENOENT">>

\* every chunk of a stream was written by the process of the script
WrittenBy(stream, name) ==
  \A i \in 1..Len(stream) : stream[i].by = name

\* C8: with two calls at once running different scripts, the result of a
\* call is made of its own process only: its stdout and stderr hold what
\* its own process wrote (or the generic stderr), its exitCode is its own
\* process's status, and which shape it has follows from its own run.
C8_Isolation ==
  \A c \in Calls :
    (Returned(c) /\ Analyze(c)) =>
      /\ input[c].name = ScriptOf[c]
      /\ Has(ret[c], "stdout")
           => ret[c].stdout = proc[c].stdout
              /\ WrittenBy(ret[c].stdout, ScriptOf[c])
      /\ Has(ret[c], "stderr")
           => \/ ret[c].stderr = proc[c].stderr
                   /\ WrittenBy(ret[c].stderr, ScriptOf[c])
              \/ proc[c].stderr = <<>> /\ ret[c].stderr = UnknownErrorStderr
      /\ Has(ret[c], "exitCode")
           => ret[c].exitCode =
                IF proc[c].status = None THEN -1 ELSE proc[c].status[1]
      /\ Has(ret[c], "exitCode") <=> (ErrorCode(c) = "" /\ ~run[c].threw)
      /\ Has(ret[c], "error") <=> AnalyzeFailed(c)

C8_Witness ==
  /\ Returned("a") /\ Returned("b")
  /\ Has(ret["a"], "stdout") /\ Has(ret["b"], "stdout")
  /\ ret["a"].stdout # <<>> /\ ret["b"].stdout # <<>>
  /\ ret["a"].exitCode = 0 /\ ret["b"].exitCode = 1

\* a request outside the ranges of the schema
OutOfRange(req) ==
  \/ req.latitude.n < -90 \/ req.latitude.n > 90
  \/ (req.latitude.n = 90 /\ req.latitude.half)
  \/ req.longitude.n < -180 \/ req.longitude.n > 180
  \/ (req.longitude.n = 180 /\ req.longitude.half)
  \/ /\ req.forecast_days # None
     /\ \/ req.forecast_days[1].half
        \/ req.forecast_days[1].n \notin 1..7

\* C9: a forecast request with latitude outside [-90,90], longitude outside
\* [-180,180] or forecast_days outside the integers 1..7 is rejected, and no
\* HTTP request is ever issued for it.
C9_InvalidNeverFetched ==
  \A c \in Calls :
    (Weather(c) /\ OutOfRange(input[c]))
      => (pc[c] = "rejected" /\ http[c] = <<>>)

C9_Witness ==
  /\ Weather("a") /\ input["a"].latitude = Num(200)
  /\ input["a"].longitude = Num(139) /\ input["a"].forecast_days = None
  /\ pc["a"] = "rejected"

FiveDefault ==
  <<"temperature_2m_max", "temperature_2m_min", "precipitation_sum",
    "windspeed_10m_max", "weathercode">>

\* the response is 2xx and its body parses as JSON
Answered(c) ==
  /\ Returned(c) /\ Weather(c) /\ reply[c][1].kind = "return"
  /\ reply[c][1].value.status \in 200..299
  /\ reply[c][1].value.body.json # "malformed"

ForecastShape(c, list) ==
  LET body == reply[c][1].value.body
      field(k) == IF body.json = "object" /\ k \in DOMAIN body.props
                  THEN body.props[k] ELSE None
  IN /\ Len(http[c]) = 1 /\ http[c][1].method = "GET"
     /\ DOMAIN ret[c] = {"source", "query", "units", "daily"}
     /\ ret[c].query.latitude = input[c].latitude
     /\ ret[c].query.longitude = input[c].longitude
     /\ ret[c].query.forecast_days =
          IF input[c].forecast_days = None THEN Num(3)
          ELSE input[c].forecast_days[1]
     /\ ret[c].query.daily = Split(http[c][1].params.daily)
     /\ ret[c].query.daily = list
     /\ ret[c].units = field("daily_units")
     /\ ret[c].daily = field("daily")

\* C10 as stated: every 2xx answer with parseable JSON gives one GET and
\* {source, query, units, daily}; the variable list is the requested one,
\* or the five defaults when it is omitted.
C10_Original ==
  \A c \in Calls :
    Answered(c)
      => ForecastShape(c, IF input[c].daily = None THEN FiveDefault
                          ELSE input[c].daily[1])

\* C10 amended: every 2xx answer whose body parses as JSON other than null
\* gives exactly one GET and {source, query, units, daily}; query echoes
\* latitude, longitude and forecast_days (3 when omitted) and the variable
\* list sent to the provider, which is the requested list, or the five
\* defaults when the list is omitted or empty; units and daily are the
\* body's daily_units and daily, or null when the body lacks them.
C10_ForecastShape ==
  \A c \in Calls :
    (Answered(c) /\ reply[c][1].value.body.json # "null")
      => ForecastShape(c, IF input[c].daily = None \/ input[c].daily = Some(<<>>)
                          THEN FiveDefault ELSE input[c].daily[1])

C10_Witness ==
  /\ Answered("a") /\ reply["a"][1].value.body.json = "object"
  /\ input["a"].forecast_days = None /\ input["a"].daily = Some(<<>>)
  /\ ret["a"].query.forecast_days = Num(3)
  /\ ret["a"].query.daily = FiveDefault
  /\ ret["a"].units = Some("daily_units") /\ ret["a"].daily = None

====
